---- MODULE Spec2Model ----
(***************************************************************************)
(* Build lifecycle orchestrator of icaas (controllers/builds.py).         *)
(*                                                                         *)
(* Request handlers (create, update, delete, view, list_builds) each run  *)
(* as one step: they read the Build table, write it and commit.  The      *)
(* threads they start (create_agent, destroy_agent_wrapper) run as        *)
(* several steps, one per record-store read, provisioner call and commit, *)
(* and interleave freely with requests and with each other.               *)
(***************************************************************************)
EXTENDS Integers, Sequences, FiniteSets, TLC

(* ------------------------------ bounds -------------------------------- *)
MaxReqs == 3
MaxBuilds == 2

(* ----------------------------- constants ------------------------------ *)
None == 0                 \* Python None in an integer column / id
NoneStr == "None"         \* Python None in a string column
Missing == "<missing>"    \* key absent from a JSON object / header absent
Users == {1, 2}           \* User.id of the authenticated callers
Statuses == {"CREATING", "ERROR", "COMPLETED"}

(* --------------------------- JSON values ------------------------------ *)
\* A JSON value of the "image"/"log" parameter: absent, a non-empty string
\* or an object with a set of keys.
JNone == [type |-> "none", keys |-> {}]
JStr == [type |-> "str", keys |-> {}]
JDict(ks) == [type |-> "dict", keys |-> ks]

\* Python truthiness of a JSON value: None and {} are false.
Truthy(v) == \/ v.type = "str"
             \/ v.type = "dict" /\ v.keys # {}

\* Python truthiness of a string parameter: None and "" are false.
TruthyStr(s) == s \notin {Missing, NoneStr, ""}

DictFields == {"container", "object"}

\* check_dict_fields without the loop over the required fields.
check_dict_fields_no_loop(value, fields) ==
    IF ~Truthy(value) THEN 400
    ELSE IF value.type # "dict" THEN 400
    ELSE 0

\* create.check_dict_fields: 0 when the value passes, else the error status.
check_dict_fields(value, fields) ==
    IF ~Truthy(value) THEN 400
    ELSE IF value.type # "dict" THEN 400
    ELSE IF \E f \in fields : f \notin value.keys THEN 400
    ELSE 0

\* Error(...) raised without a status keyword.
ErrorDefaultStatus == 400

\* The request bodies of create that the model sends: no JSON body, a body
\* without "build", the valid bodies, and every valid body with one
\* parameter replaced by a value the validation rejects.
ValidImage == JDict({"container", "object"})
ValidBodies ==
    [kind : {"build"}, name : {"img1"}, src : {"http://x/img"},
     image : {ValidImage},
     log : {ValidImage}]
BadStrings == {Missing, ""}
BadDicts == {JNone, JStr, JDict({}), JDict({"container"}), JDict({"object"})}
CreateBodies ==
    {[kind |-> "nobody", name |-> Missing, src |-> Missing,
      image |-> JNone, log |-> JNone],
     [kind |-> "nobuild", name |-> Missing, src |-> Missing,
      image |-> JNone, log |-> JNone]}
    \cup ValidBodies
    \cup {[v EXCEPT !.name = x] : v \in ValidBodies, x \in BadStrings}
    \cup {[v EXCEPT !.src = x] : v \in ValidBodies, x \in BadStrings}
    \cup {[v EXCEPT !.image = x] : v \in ValidBodies, x \in BadDicts}
    \cup {[v EXCEPT !.log = x] : v \in ValidBodies, x \in BadDicts}

\* The validation part of create: 0 when the request is valid.
create_validate(body) ==
    IF body.kind = "nobody" THEN ErrorDefaultStatus
    ELSE IF body.kind = "nobuild" THEN 400
    ELSE IF ~TruthyStr(body.name) THEN 400
    ELSE IF ~TruthyStr(body.src) THEN 400
    ELSE IF check_dict_fields(body.image, DictFields) # 0
         THEN check_dict_fields(body.image, DictFields)
    ELSE check_dict_fields(body.log, DictFields)

(* ------------------------------ state --------------------------------- *)
VARIABLES
    builds,      \* the Build table: builds[id] is the row with that id
    createT,     \* createT[id]: the CreateAgentThread of build id
    destroyT,    \* the DestroyAgentThreads, in the order they were started
    vms,         \* the VMs that exist at the compute provisioner
    debug,       \* settings.DEBUG
    nreq,        \* the number of requests handled so far
    resp,        \* the response of the request handled last
    users,       \* the User table: users[id] is the row with that id
    logins       \* the requests inside login_required, between its
                 \* lookup of the User and its write

vars == <<builds, createT, destroyT, vms, debug, nreq, resp, users, logins>>

BuildIds == 1..Len(builds)

(* --------------------------- representation --------------------------- *)
\* The href is settings.ENDPOINT followed by the build id.
_build_to_links(id) == <<[href |-> id, rel |-> "self"]>>

\* The JSON representation of a build.  The key of the name is "name:" in
\* the code.  The created and updated timestamps are set by the Build
\* model class and are left out.
_build_to_dict(id, build) ==
    [id |-> id,
     nameColon |-> build.name,
     src |-> build.src,
     status |-> build.status,
     status_details |-> build.status_details,
     image |-> build.image,
     log |-> build.log,
     links |-> _build_to_links(id)]

NoBody == [id |-> None]

\* The request handled last (operation, caller, build id, callback token,
\* "status" parameter) and the status code and JSON body of its response.
Response(op, user, bid, token, status, code, body) ==
    [op |-> op, user |-> user, bid |-> bid, token |-> token,
     status |-> status, code |-> code, body |-> body]

(* ---------------------------- the User model -------------------------- *)
\* The identities the verifier knows and the bearer tokens callers send.
Uuids == {"u1", "u2"}
AuthTokens == {"t1", "t2"}

\* User(uuid) with user.token = token: the row login_required inserts.
User(uuid, token) == [uuid |-> uuid, token |-> token]

\* The User rows of the callers Users, who have authenticated before.
KnownUsers == <<User("u1", "t1"), User("u2", "t2")>>

(* ------------------------------ Init ---------------------------------- *)
\* The Build table is empty.  The callers have passed login_required
\* before and present the token stored on their User row, so the gate
\* writes nothing for them; AuthSpec starts from an empty User table.
Init ==
    /\ builds = <<>>
    /\ createT = <<>>
    /\ destroyT = <<>>
    /\ vms = {}
    /\ debug \in BOOLEAN
    /\ nreq = 0
    /\ resp = Response("none", None, None, Missing, Missing, 0, NoBody)
    /\ users = KnownUsers
    /\ logins = <<>>

(* ------------------------- the Build model ---------------------------- *)
\* The one-time callback token generated for the build with this id.
TokenFor(id) == "tok" \o ToString(id)

\* Build(user.id, name, src, None, image, log): the row create inserts.
Build(id, user, name, src, image, log) ==
    [user |-> user, name |-> name, src |-> src,
     status |-> "CREATING", status_details |-> NoneStr,
     image |-> image, log |-> log, token |-> TokenFor(id),
     agent |-> None, agent_alive |-> FALSE, deleted |-> FALSE]

(* ------------------------------ create -------------------------------- *)
\* The whole handler: validation, insert and commit, start of the
\* CreateAgentThread, 202 response.  At most MaxBuilds rows are created.
create(user, body) ==
    /\ nreq < MaxReqs
    /\ nreq' = nreq + 1
    /\ LET code == create_validate(body)
           id == Len(builds) + 1
           build == Build(id, user, body.name, body.src, body.image, body.log)
       IN IF code # 0
          THEN /\ resp' = Response("create", user, None, Missing, Missing,
                                   code, NoBody)
               /\ UNCHANGED <<builds, createT>>
          ELSE /\ Len(builds) < MaxBuilds
               /\ builds' = Append(builds, build)
               /\ createT' = Append(createT, [pc |-> "start", agent |-> None])
               /\ resp' = Response("create", user, id, Missing, Missing, 202,
                                   _build_to_dict(id, build))
    /\ UNCHANGED <<destroyT, vms, debug>>

(* --------------------------- create_agent ----------------------------- *)
\* Build.query.filter_by(id=buildid, deleted=False).first(); on None the
\* logging statement dereferences None and the thread dies.
create_agent_fetch(b) ==
    /\ createT[b].pc = "start"
    /\ createT' = [createT EXCEPT ![b].pc =
                      IF builds[b].deleted THEN "crashed" ELSE "fetched"]
    /\ UNCHANGED <<builds, destroyT, vms, debug, nreq, resp, users, logins>>

\* The id of the next VM: the provisioner never hands out an id twice.
NewVmId == 10 + Cardinality({b \in BuildIds : createT[b].agent # None}) + 1

\* compute.create_server(...): returns a new VM, or raises.
create_agent_call(b) ==
    /\ createT[b].pc = "fetched"
    /\ \/ /\ createT' = [createT EXCEPT ![b] =
                            [pc |-> "created", agent |-> NewVmId]]
          /\ vms' = vms \cup {NewVmId}
       \/ /\ createT' = [createT EXCEPT ![b].pc = "raised"]
          /\ UNCHANGED <<vms>>
    /\ UNCHANGED <<builds, destroyT, debug, nreq, resp, users, logins>>

\* create_agent_commit whose except branches only log.
create_agent_commit_log_only(b) ==
    /\ createT[b].pc \in {"created", "raised"}
    /\ IF createT[b].pc = "raised"
       THEN /\ builds' = builds
            /\ createT' = [createT EXCEPT ![b].pc = "failed"]
       ELSE /\ builds' = [builds EXCEPT
                            ![b].agent = createT[b].agent,
                            ![b].agent_alive = TRUE,
                            ![b].status_details = "started icaas agent creation"]
            /\ createT' = [createT EXCEPT ![b].pc = "done"]
    /\ UNCHANGED <<destroyT, vms, debug, nreq, resp, users, logins>>

\* create_agent_commit whose except branches do not return: the success
\* tail runs after them.
create_agent_commit_no_return(b) ==
    /\ createT[b].pc \in {"created", "raised"}
    /\ IF createT[b].pc = "raised"
       THEN /\ builds' = [builds EXCEPT
                            ![b].status = "ERROR",
                            ![b].agent_alive = TRUE,
                            ![b].status_details = "started icaas agent creation"]
            /\ createT' = [createT EXCEPT ![b].pc = "failed"]
       ELSE /\ builds' = [builds EXCEPT
                            ![b].agent = createT[b].agent,
                            ![b].agent_alive = TRUE,
                            ![b].status_details = "started icaas agent creation"]
            /\ createT' = [createT EXCEPT ![b].pc = "done"]
    /\ UNCHANGED <<destroyT, vms, debug, nreq, resp, users, logins>>

\* create_agent_commit whose success tail does not store the VM id.
create_agent_commit_no_agent_id(b) ==
    /\ createT[b].pc \in {"created", "raised"}
    /\ IF createT[b].pc = "raised"
       THEN /\ builds' = [builds EXCEPT
                            ![b].status = "ERROR",
                            ![b].status_details = "icaas agent creation failed"]
            /\ createT' = [createT EXCEPT ![b].pc = "failed"]
       ELSE /\ builds' = [builds EXCEPT
                            ![b].agent_alive = TRUE,
                            ![b].status_details = "started icaas agent creation"]
            /\ createT' = [createT EXCEPT ![b].pc = "done"]
    /\ UNCHANGED <<destroyT, vms, debug, nreq, resp, users, logins>>

\* The except branches and the success tail of create_agent: one commit.
create_agent_commit(b) ==
    /\ createT[b].pc \in {"created", "raised"}
    /\ IF createT[b].pc = "raised"
       THEN /\ builds' = [builds EXCEPT
                            ![b].status = "ERROR",
                            ![b].status_details = "icaas agent creation failed"]
            /\ createT' = [createT EXCEPT ![b].pc = "failed"]
       ELSE /\ builds' = [builds EXCEPT
                            ![b].agent = createT[b].agent,
                            ![b].agent_alive = TRUE,
                            ![b].status_details = "started icaas agent creation"]
            /\ createT' = [createT EXCEPT ![b].pc = "done"]
    /\ UNCHANGED <<destroyT, vms, debug, nreq, resp, users, logins>>

(* ---------------------- destroy_agent_wrapper ------------------------- *)
\* threading.Thread(target=destroy_agent_wrapper).start()
StartDestroy(threads, bid, origin) ==
    Append(threads, [bid |-> bid, pc |-> "start", agent |-> None,
                     origin |-> origin])

\* Build.query.filter_by(id=buildid).first(): a row is found whether it is
\* soft-deleted or not, and the thread works on the object it loaded.  On
\* None the logging statement dereferences None (build.id) and the thread
\* dies with an AttributeError before its return.
destroy_agent_fetch(i) ==
    /\ destroyT[i].pc = "start"
    /\ destroyT' = IF destroyT[i].bid \in BuildIds
                   THEN [destroyT EXCEPT
                           ![i].pc = "fetched",
                           ![i].agent = builds[destroyT[i].bid].agent]
                   ELSE [destroyT EXCEPT ![i].pc = "crashed"]
    /\ UNCHANGED <<builds, createT, vms, debug, nreq, resp, users, logins>>

\* destroy_agent(build): the provisioner is asked to delete build.agent.
\* It deletes the VM, answers "not found", or fails otherwise.
destroy_agent_call(i) ==
    /\ destroyT[i].pc = "fetched"
    /\ \/ /\ destroyT[i].agent \in vms
          /\ vms' = vms \ {destroyT[i].agent}
          /\ destroyT' = [destroyT EXCEPT ![i].pc = "deleted"]
       \/ /\ destroyT[i].agent \notin vms
          /\ vms' = vms
          /\ destroyT' = [destroyT EXCEPT ![i].pc = "notfound"]
       \/ /\ vms' = vms
          /\ destroyT' = [destroyT EXCEPT ![i].pc = "raised"]
    /\ UNCHANGED <<builds, createT, debug, nreq, resp, users, logins>>

\* destroy_agent(build): agent_alive is cleared after a successful delete
\* and after "not found"; any other failure is logged only.
destroy_agent_commit(i) ==
    /\ destroyT[i].pc \in {"deleted", "notfound", "raised"}
    /\ builds' = IF destroyT[i].pc = "raised" THEN builds
                 ELSE [builds EXCEPT ![destroyT[i].bid].agent_alive = FALSE]
    /\ destroyT' = [destroyT EXCEPT ![i].pc =
                      IF destroyT[i].pc = "raised" THEN "failed" ELSE "done"]
    /\ UNCHANGED <<createT, vms, debug, nreq, resp, users, logins>>

(* ------------------------------ update -------------------------------- *)
\* The X-Icaas-Token headers the model sends: none, a token of no build,
\* and the token of every build id.
WrongToken == "wrong"
Tokens == {Missing, WrongToken} \cup {builds[id].token : id \in BuildIds}

\* The request bodies of update: no JSON body, or a JSON object with or
\* without "status" and "details".
UpdateBodies ==
    {[kind |-> "nobody", status |-> Missing, details |-> Missing]}
    \cup [kind : {"json"}, status : {Missing, "", "BOGUS"}, details : {"d1"}]
    \cup [kind : {"json"}, status : Statuses, details : {Missing, "d1"}]

\* update_lookup with the deleted=False filter left out.
update_lookup_with_deleted(bid, token) ==
    /\ bid \in BuildIds
    /\ builds[bid].token = token

\* update_lookup with the token filter left out.
update_lookup_by_id(bid, token) ==
    /\ bid \in BuildIds
    /\ ~builds[bid].deleted

\* Build.query.filter_by(id=buildid, token=token, deleted=False).first()
update_lookup(bid, token) ==
    /\ bid \in BuildIds
    /\ builds[bid].token = token
    /\ ~builds[bid].deleted

\* update_code that refuses a status the build already has.
update_code_rejects_repeat(bid, token, body) ==
    IF token = Missing THEN 401
    ELSE IF ~update_lookup(bid, token) THEN 404
    ELSE IF body.kind = "nobody" THEN 400
    ELSE IF ~TruthyStr(body.status) THEN 400
    ELSE IF body.status \notin Statuses THEN 400
    ELSE IF body.status = builds[bid].status THEN 409
    ELSE 202

\* update_code without the test of the status against the enumeration.
update_code_no_enum_check(bid, token, body) ==
    IF token = Missing THEN 401
    ELSE IF ~update_lookup(bid, token) THEN 404
    ELSE IF body.kind = "nobody" THEN 400
    ELSE IF ~TruthyStr(body.status) THEN 400
    ELSE 202

\* The status of the response of update; 202 when the update is applied.
update_code(bid, token, body) ==
    IF token = Missing THEN 401
    ELSE IF ~update_lookup(bid, token) THEN 404
    ELSE IF body.kind = "nobody" THEN 400
    ELSE IF ~TruthyStr(body.status) THEN 400
    ELSE IF body.status \notin Statuses THEN 400
    ELSE 202

\* update_destroys without the test of settings.DEBUG.
update_destroys_in_debug_too(status) ==
    status = "COMPLETED" \/ status = "ERROR"

\* update_destroys with the COMPLETED case left out.
update_destroys_on_error_only(status) ==
    status = "ERROR" /\ ~debug

\* "Should we delete the agent VM?"
update_destroys(status) ==
    status = "COMPLETED" \/ (status = "ERROR" /\ ~debug)

update(bid, token, body) ==
    /\ nreq < MaxReqs
    /\ nreq' = nreq + 1
    /\ LET code == update_code(bid, token, body)
           \* params.get("status") is read only once the build is found
           status == IF code \in {401, 404} THEN Missing ELSE body.status
       IN /\ resp' = Response("update", None, bid, token, status, code,
                              NoBody)
          /\ IF code # 202
             THEN UNCHANGED <<builds, destroyT>>
             ELSE /\ builds' = [builds EXCEPT
                                  ![bid].status = body.status,
                                  ![bid].status_details =
                                      IF TruthyStr(body.details)
                                      THEN body.details ELSE @]
                  /\ IF update_destroys(body.status)
                     THEN destroyT' = StartDestroy(destroyT, bid, "update")
                     ELSE destroyT' = destroyT
    /\ UNCHANGED <<createT, vms, debug, users, logins>>

(* -------------------------- view / list / delete ---------------------- *)
\* owned_lookup with the user filter left out.
owned_lookup_any_user(user, bid) ==
    /\ bid \in BuildIds
    /\ ~builds[bid].deleted

\* owned_lookup with the deleted=False filter left out.
owned_lookup_with_deleted(user, bid) ==
    /\ bid \in BuildIds
    /\ builds[bid].user = user

\* Build.query.filter_by(id=buildid, user=user.id, deleted=False).first()
owned_lookup(user, bid) ==
    /\ bid \in BuildIds
    /\ builds[bid].user = user
    /\ ~builds[bid].deleted

\* view_response whose representation lacks the links.
view_response_no_links(user, bid) ==
    IF ~owned_lookup(user, bid)
    THEN Response("view", user, bid, Missing, Missing, 404, NoBody)
    ELSE Response("view", user, bid, Missing, Missing, 200,
                  [_build_to_dict(bid, builds[bid]) EXCEPT !.links = <<>>])

\* The response of view.
view_response(user, bid) ==
    IF ~owned_lookup(user, bid)
    THEN Response("view", user, bid, Missing, Missing, 404, NoBody)
    ELSE Response("view", user, bid, Missing, Missing, 200,
                  _build_to_dict(bid, builds[bid]))

view(user, bid) ==
    /\ nreq < MaxReqs
    /\ nreq' = nreq + 1
    /\ resp' = view_response(user, bid)
    /\ UNCHANGED <<builds, createT, destroyT, vms, debug>>

\* Build.query.filter_by(user=user.id, deleted=False).all(), as ids.
list_query(user) ==
    {id \in BuildIds : builds[id].user = user /\ ~builds[id].deleted}

\* The "builds" array of the response of list_builds.
list_result(user) ==
    {[links |-> _build_to_links(id), id |-> id, name |-> builds[id].name] :
        id \in list_query(user)}

list_builds(user) ==
    /\ nreq < MaxReqs
    /\ nreq' = nreq + 1
    /\ resp' = Response("list", user, None, Missing, Missing, 200,
                        [id |-> None, builds |-> list_result(user)])
    /\ UNCHANGED <<builds, createT, destroyT, vms, debug>>

\* delete that starts the teardown thread without testing agent_alive.
delete_always_destroys(user, bid) ==
    /\ nreq < MaxReqs
    /\ nreq' = nreq + 1
    /\ IF ~owned_lookup(user, bid)
       THEN /\ resp' = Response("delete", user, bid, Missing, Missing, 404,
                                NoBody)
            /\ UNCHANGED <<builds, destroyT>>
       ELSE /\ builds' = [builds EXCEPT ![bid].deleted = TRUE]
            /\ destroyT' = StartDestroy(destroyT, bid, "delete")
            /\ resp' = Response("delete", user, bid, Missing, Missing, 200,
                                NoBody)
    /\ UNCHANGED <<createT, vms, debug>>

delete(user, bid) ==
    /\ nreq < MaxReqs
    /\ nreq' = nreq + 1
    /\ IF ~owned_lookup(user, bid)
       THEN /\ resp' = Response("delete", user, bid, Missing, Missing, 404,
                                NoBody)
            /\ UNCHANGED <<builds, destroyT>>
       ELSE /\ builds' = [builds EXCEPT ![bid].deleted = TRUE]
            /\ IF builds[bid].agent_alive
               THEN destroyT' = StartDestroy(destroyT, bid, "delete")
               ELSE destroyT' = destroyT
            /\ resp' = Response("delete", user, bid, Missing, Missing, 200,
                                NoBody)
    /\ UNCHANGED <<createT, vms, debug>>

(* ------------------------------- Next --------------------------------- *)
\* The build ids requests name: those of the rows, and one of no row.
AllIds == 1..(Len(builds) + 1)

\* The users who call create.  Users are interchangeable, so the owners of
\* the builds are taken in order: the first build belongs to user 1, and a
\* user owns a build only once every lower-numbered user does.
Owners == {builds[b].user : b \in BuildIds}
Creators == {u \in Users : u <= Cardinality(Owners) + 1}
Threads == 1..Len(destroyT)

\* login_required for a caller whose User row exists and holds the token
\* presented: the row is found and nothing is written.
login_known == UNCHANGED <<users, logins>>

Next ==
    \/ \E u \in Creators, body \in CreateBodies :
          login_known /\ create(u, body)
    \/ \E b \in AllIds, t \in Tokens, body \in UpdateBodies : update(b, t, body)
    \/ \E u \in Users, b \in AllIds : login_known /\ view(u, b)
    \/ \E u \in Users : login_known /\ list_builds(u)
    \/ \E u \in Users, b \in AllIds : login_known /\ delete(u, b)
    \/ \E b \in BuildIds : create_agent_fetch(b)
    \/ \E b \in BuildIds : create_agent_call(b)
    \/ \E b \in BuildIds : create_agent_commit(b)
    \/ \E i \in Threads : destroy_agent_fetch(i)
    \/ \E i \in Threads : destroy_agent_call(i)
    \/ \E i \in Threads : destroy_agent_commit(i)

Spec == Init /\ [][Next]_vars

\* The threads run to their end once started; requests need not arrive.
Fairness ==
    /\ \A b \in 1..MaxReqs :
          /\ WF_vars(b \in BuildIds /\ create_agent_fetch(b))
          /\ WF_vars(b \in BuildIds /\ create_agent_call(b))
          /\ WF_vars(b \in BuildIds /\ create_agent_commit(b))
    /\ \A i \in 1..MaxReqs :
          /\ WF_vars(i \in Threads /\ destroy_agent_fetch(i))
          /\ WF_vars(i \in Threads /\ destroy_agent_call(i))
          /\ WF_vars(i \in Threads /\ destroy_agent_commit(i))

FairSpec == Spec /\ Fairness

(* ------------------- a teardown thread without its row ---------------- *)
\* The id of a build whose row is gone from the table: the record store
\* is external, and ids are not handed out again.
OrphanId == MaxBuilds + 1

\* The service with one teardown thread started, by update or by delete,
\* for a build whose row has been removed from the record store since.
OrphanInit ==
    /\ builds = <<>>
    /\ createT = <<>>
    /\ \E origin \in {"update", "delete"} :
          destroyT = StartDestroy(<<>>, OrphanId, origin)
    /\ vms = {}
    /\ debug \in BOOLEAN
    /\ nreq = 0
    /\ resp = Response("none", None, None, Missing, Missing, 0, NoBody)
    /\ users = KnownUsers
    /\ logins = <<>>

OrphanSpec == OrphanInit /\ [][Next]_vars

(* --------------------------- login_required --------------------------- *)
\* The ways login_required fails before it looks the User up, each with
\* the status of its Error: no X-Auth-Token header, the verifier answers
\* Unauthorized, the verifier fails otherwise.
LoginFailures ==
    {[why |-> "no header", code |-> 401],
     [why |-> "unauthorized", code |-> 401],
     [why |-> "exception", code |-> 500]}

\* The handlers login_required wraps.
WrappedOps == {"create", "view", "list", "delete"}

\* The requests the model lets into the gate: MaxReqs in all.
LoginBudget == nreq + Len(logins) < MaxReqs

\* login_required raises Error: the wrapped handler is not called.
login_reject(op, failure) ==
    /\ LoginBudget
    /\ nreq' = nreq + 1
    /\ resp' = Response(op, None, None, Missing, Missing, failure.code,
                        NoBody)
    /\ UNCHANGED <<builds, createT, destroyT, vms, debug, users, logins>>

\* The verifier resolves the token to uuid, and
\* User.query.filter_by(uuid=uuid).first() loads the row, if there is one:
\* the request holds the User object (its id and its token as loaded).
login_lookup(uuid, token) ==
    /\ LoginBudget
    /\ LET found == {id \in 1..Len(users) : users[id].uuid = uuid}
       IN \/ /\ found = {}
             /\ logins' = Append(logins, [uuid |-> uuid, token |-> token,
                                          user |-> None, stored |-> Missing])
          \/ \E id \in found :
                logins' = Append(logins, [uuid |-> uuid, token |-> token,
                                          user |-> id,
                                          stored |-> users[id].token])
    /\ UNCHANGED <<builds, createT, destroyT, vms, debug, nreq, resp, users>>

\* The sequence without its element r.
Remove(seq, r) ==
    [i \in 1..(Len(seq) - 1) |-> IF i < r THEN seq[i] ELSE seq[i + 1]]

\* The id of the User object request r passes to the wrapped handler.
login_user(r) ==
    IF logins[r].user = None THEN Len(users) + 1 ELSE logins[r].user

\* login_commit that inserts a row when the token differs.
login_commit_insert_on_new_token(r) ==
    /\ users' = IF logins[r].user = None \/ logins[r].stored # logins[r].token
                THEN Append(users, User(logins[r].uuid, logins[r].token))
                ELSE users
    /\ logins' = Remove(logins, r)

\* The three branches after the lookup: insert and commit, token update
\* and commit, or nothing; the request then leaves the gate.
login_commit(r) ==
    /\ users' = IF logins[r].user = None
                THEN Append(users, User(logins[r].uuid, logins[r].token))
                ELSE IF logins[r].stored # logins[r].token
                THEN [users EXCEPT ![logins[r].user].token = logins[r].token]
                ELSE users
    /\ logins' = Remove(logins, r)

Logins == 1..Len(logins)

\* The requests that pass through login_required, from an empty User
\* table.  A request that is let in writes the User table and runs its
\* handler in one step; which handler it is for is drawn at that step.
\* The agent callback and the threads do not pass the gate and never
\* touch the User table: Spec has them.
AuthInit ==
    /\ builds = <<>>
    /\ createT = <<>>
    /\ destroyT = <<>>
    /\ vms = {}
    /\ debug \in BOOLEAN
    /\ nreq = 0
    /\ resp = Response("none", None, None, Missing, Missing, 0, NoBody)
    /\ users = <<>>
    /\ logins = <<>>

AuthNext ==
    \/ \E op \in WrappedOps, failure \in LoginFailures :
          login_reject(op, failure)
    \/ \E uuid \in Uuids, token \in AuthTokens : login_lookup(uuid, token)
    \/ \E r \in Logins, body \in CreateBodies :
          login_commit(r) /\ create(login_user(r), body)
    \/ \E r \in Logins, b \in AllIds :
          login_commit(r) /\ view(login_user(r), b)
    \/ \E r \in Logins : login_commit(r) /\ list_builds(login_user(r))
    \/ \E r \in Logins, b \in AllIds :
          login_commit(r) /\ delete(login_user(r), b)

AuthSpec == AuthInit /\ [][AuthNext]_vars

(* ====================================================================== *)
(*                              Properties                                *)
(* ====================================================================== *)
Terminal == {"ERROR", "COMPLETED"}

\* The teardown threads started for build b, and those of them that have
\* made their provisioner delete call.
ThreadsOf(b) == {i \in Threads : destroyT[i].bid = b}
Called == {"deleted", "notfound", "raised", "done", "failed"}
DeleteCalls(b) == {i \in ThreadsOf(b) : destroyT[i].pc \in Called}

\* C1: a build's status never leaves a terminal state: once it is ERROR or
\* COMPLETED no step changes it to another value.
C1_StatusNeverLeavesTerminal ==
    [][\A b \in BuildIds :
          builds[b].status \in Terminal
              => builds'[b].status = builds[b].status]_vars

\* C2: the agent VM of a build is torn down at most once: at most one
\* teardown thread is started for a build and the provisioner's delete is
\* called at most once for it.
C2_TornDownAtMostOnce ==
    \A b \in BuildIds :
        /\ Cardinality(ThreadsOf(b)) <= 1
        /\ Cardinality(DeleteCalls(b)) <= 1

\* A finish event of build b has been handled: a delete, or an update that
\* started teardown (COMPLETED, or ERROR outside debug mode).
Finished(b) ==
    \/ builds[b].deleted
    \/ \E i \in ThreadsOf(b) : destroyT[i].origin = "update"

\* Every thread of build b has ended.
Quiescent(b) ==
    /\ createT[b].pc \in {"done", "failed", "crashed"}
    /\ \A i \in ThreadsOf(b) : destroyT[i].pc \in {"done", "failed"}

\* No provisioner call made for build b has failed.
ProvisionerSucceeded(b) ==
    /\ createT[b].pc \notin {"raised", "failed"}
    /\ \A i \in ThreadsOf(b) : destroyT[i].pc \notin {"raised", "failed"}

\* The agent VM of build b exists at the provisioner.
AgentExists(b) == createT[b].agent # None /\ createT[b].agent \in vms

\* C3: no agent VM is leaked: when a finish event of a build has been
\* handled, its threads have all run to their end and the provisioner
\* never failed, no agent VM of the build exists and agent_alive is false.
C3_NoAgentLeaked ==
    \A b \in BuildIds :
        Finished(b) /\ Quiescent(b) /\ ProvisionerSucceeded(b)
            => ~AgentExists(b) /\ ~builds[b].agent_alive

\* This step handles a request of kind op.
Handles(op) == nreq' = nreq + 1 /\ resp'.op = op

\* This step handles an update that names a build and whose X-Icaas-Token
\* header is absent or is not the token of that build.
BadTokenUpdate ==
    /\ Handles("update")
    /\ resp'.bid \in BuildIds
    /\ resp'.token # builds[resp'.bid].token

\* C4 as stated: an update with a wrong or missing one-time token answers
\* NotFound (404), changes no field of any build and starts no teardown.
C4_BadTokenNotFound ==
    [][BadTokenUpdate
          => resp'.code = 404 /\ builds' = builds /\ destroyT' = destroyT]_vars

\* C4 amended: an update with a wrong one-time token answers 404 and an
\* update without the header answers 401; both change no field of any
\* build and start no teardown, whatever status the body asks for.
C4_BadTokenRejected ==
    [][BadTokenUpdate
          => /\ resp'.code = IF resp'.token = Missing THEN 401 ELSE 404
             /\ builds' = builds
             /\ destroyT' = destroyT]_vars

\* An update carrying the token of another build was answered 404 while
\* the build it named is neither deleted nor in a terminal state.
C4_Witness ==
    /\ resp.op = "update" /\ resp.code = 404
    /\ resp.bid \in BuildIds
    /\ ~builds[resp.bid].deleted
    /\ resp.token \notin {Missing, WrongToken, builds[resp.bid].token}
    /\ builds[resp.bid].status = "CREATING"
    /\ builds[resp.bid].agent_alive

\* C5: a soft-deleted build is never in its owner's list result and a view
\* of it by its owner answers 404, whatever its status.
C5_DeletedHidden ==
    [][/\ Handles("view") /\ resp'.bid \in BuildIds
          /\ builds[resp'.bid].deleted
          => resp'.code = 404
       /\ Handles("list")
          => \A r \in resp'.body.builds : ~builds[r.id].deleted]_vars

\* The owner viewed a soft-deleted build in status ERROR and got 404.
C5_Witness ==
    /\ resp.op = "view" /\ resp.code = 404
    /\ resp.bid \in BuildIds
    /\ builds[resp.bid].deleted
    /\ builds[resp.bid].user = resp.user
    /\ builds[resp.bid].status = "ERROR"

\* The CreateAgentThread of build b has not committed anything yet.
Uncommitted(b) == createT[b].pc \in {"start", "fetched", "created", "raised"}

\* C6: every accepted create returns a build with status CREATING and a
\* non-null id, and a view of that id by the same owner, issued next and
\* before the provisioning thread has committed, answers 200 with a
\* representation identical to the one create returned.
C6_CreateThenView ==
    resp.op = "create" /\ resp.code = 202
        => /\ resp.body.status = "CREATING"
           /\ resp.body.id # None
           /\ resp.body.id = resp.bid
           /\ Uncommitted(resp.bid)
                => /\ view_response(resp.user, resp.bid).code = 200
                   /\ view_response(resp.user, resp.bid).body = resp.body

\* create has answered 202 and the provisioning thread of the new build is
\* between its provisioner call and its commit.
C6_Witness ==
    /\ resp.op = "create" /\ resp.code = 202
    /\ createT[resp.bid].pc = "created"
    /\ view_response(resp.user, resp.bid).code = 200

\* The value of a dict-shaped parameter is rejected: it is missing or
\* empty, is not a mapping, or lacks "container" or "object".
BadDict(v) ==
    \/ v.type # "dict"
    \/ v.keys = {}
    \/ ~({"container", "object"} \subseteq v.keys)

\* The create bodies that fail validation.
InvalidBodies ==
    {body \in CreateBodies :
        /\ body.kind = "build"
        /\ \/ body.name \in {Missing, ""}
           \/ body.src \in {Missing, ""}
           \/ BadDict(body.image)
           \/ BadDict(body.log)}

\* C7: a create that fails validation answers 400, persists no Build row,
\* starts no provisioning thread and causes no provisioner call.
C7_InvalidCreateHasNoEffect ==
    [][Handles("create") =>
       \A body \in InvalidBodies :
          create(resp'.user, body)
              => /\ resp'.code = 400
                 /\ builds' = builds
                 /\ createT' = createT
                 /\ destroyT' = destroyT
                 /\ vms' = vms]_vars

\* A create was answered 400 while a build exists whose provisioning is in
\* flight.
C7_Witness ==
    /\ resp.op = "create" /\ resp.code = 400
    /\ \E b \in BuildIds : createT[b].pc = "fetched"

\* The outcomes of provisioning: the agent is alive with the provisioner's
\* VM id stored, or the status is ERROR.
Provisioned(b) ==
    /\ builds[b].agent_alive
    /\ builds[b].agent # None
    /\ builds[b].agent = createT[b].agent
Outcome(b) == Provisioned(b) \/ builds[b].status = "ERROR"

\* The provisioning thread found the build soft-deleted at its re-fetch
\* and ended: no VM was created and nothing written.
EndedOnDeleted(b) ==
    /\ createT[b].pc = "crashed"
    /\ builds[b].deleted
    /\ createT[b].agent = None
    /\ builds[b].agent = None
    /\ ~builds[b].agent_alive

\* create has inserted build b and started its provisioning thread, which
\* has not run yet.
JustCreated(b) == b \in BuildIds /\ createT[b].pc = "start"

\* C8 as stated: after every accepted create the build eventually has an
\* alive agent with its VM id stored, or status ERROR.
C8_EventuallyOutcome ==
    \A b \in 1..MaxBuilds :
        JustCreated(b) ~> (b \in BuildIds /\ Outcome(b))

\* C8 amended: ... or the build was soft-deleted before the provisioning
\* thread re-fetched it, and the thread ended without creating a VM and
\* without writing to the build.
C8_EventuallyOutcomeOrDeleted ==
    \A b \in 1..MaxBuilds :
        JustCreated(b)
            ~> (b \in BuildIds /\ (Outcome(b) \/ EndedOnDeleted(b)))

\* A build was deleted while its provisioning was in flight and its agent
\* was committed alive all the same.
C8_Witness ==
    \E b \in BuildIds :
        /\ Provisioned(b)
        /\ builds[b].deleted
        /\ builds[b].status = "CREATING"

\* C9: when create_server fails, the provisioning thread commits status
\* ERROR with the failure detail, and from the failed call on the agent id
\* stays null and agent_alive stays false.
C9_FailedProvisioningNeverAlive ==
    /\ [](\A b \in BuildIds :
            createT[b].pc \in {"raised", "failed"}
                => /\ ~builds[b].agent_alive
                   /\ builds[b].agent = None
                   /\ createT[b].agent = None)
    /\ [][\A b \in BuildIds :
            createT[b].pc = "raised" /\ createT'[b].pc # "raised"
                => /\ createT'[b].pc = "failed"
                   /\ builds'[b].status = "ERROR"
                   /\ builds'[b].status_details = "icaas agent creation failed"]_vars

\* Provisioning failed, the build was updated and deleted afterwards and a
\* teardown thread has run for it.
C9_Witness ==
    \E b \in BuildIds :
        /\ createT[b].pc = "failed"
        /\ builds[b].status = "COMPLETED"
        /\ \E i \in ThreadsOf(b) : destroyT[i].pc = "done"

\* This step handles an update that finds its build (right token, not
\* deleted) and asks for status st.
AcceptedUpdate(st) ==
    /\ Handles("update")
    /\ update_lookup(resp'.bid, resp'.token)
    /\ resp'.status = st

\* A provisioner call of a teardown thread of build b has failed.
TeardownFailed(b) ==
    \E i \in ThreadsOf(b) : destroyT[i].pc \in {"raised", "failed"}

\* A teardown thread started by update for build b has not ended.
TeardownPending(b) ==
    \E i \in ThreadsOf(b) :
        destroyT[i].origin = "update" /\ destroyT[i].pc \notin {"done", "failed"}

\* C10: outside debug mode an accepted COMPLETED update on a build whose
\* agent is alive answers 202 and starts a teardown thread; the thread
\* asks the provisioner to delete exactly the agent VM stored on the
\* build, agent_alive is cleared only by a teardown thread after its
\* provisioner call, and unless the provisioner fails agent_alive is
\* eventually false.
C10_CompletedTearsDown ==
    /\ [][AcceptedUpdate("COMPLETED") /\ builds[resp'.bid].agent_alive /\ ~debug
            => /\ resp'.code = 202
               /\ destroyT' = Append(destroyT,
                                     [bid |-> resp'.bid, pc |-> "start",
                                      agent |-> None, origin |-> "update"])]_vars
    /\ [][\A i \in Threads :
            LET b == destroyT[i].bid
            IN /\ builds[b].agent_alive
                  /\ destroyT[i].pc = "start" /\ destroyT'[i].pc # "start"
                  => destroyT'[i].agent = builds[b].agent
               /\ builds[b].agent_alive
                  /\ destroyT[i].pc = "fetched" /\ destroyT'[i].pc = "deleted"
                  /\ destroyT[i].agent # None
                  => /\ destroyT[i].agent = builds[b].agent
                     /\ vms' = vms \ {builds[b].agent}
                     /\ builds'[b].agent_alive]_vars
    /\ [][\A b \in BuildIds :
            builds[b].agent_alive /\ ~builds'[b].agent_alive
                => \E i \in ThreadsOf(b) :
                      /\ destroyT[i].pc \in {"deleted", "notfound"}
                      /\ destroyT'[i].pc = "done"]_vars
    /\ \A b \in 1..MaxBuilds :
          (b \in BuildIds /\ ~debug /\ builds[b].agent_alive
                /\ TeardownPending(b))
              ~> (b \in BuildIds
                    /\ (~builds[b].agent_alive \/ TeardownFailed(b)))

\* Outside debug mode a COMPLETED update found the agent alive; its
\* teardown thread deleted the stored VM and cleared agent_alive.
C10_Witness ==
    \E b \in BuildIds : \E i \in ThreadsOf(b) :
        /\ ~debug
        /\ builds[b].status = "COMPLETED"
        /\ destroyT[i].origin = "update"
        /\ destroyT[i].pc = "done"
        /\ destroyT[i].agent = builds[b].agent
        /\ builds[b].agent # None
        /\ builds[b].agent \notin vms
        /\ ~builds[b].agent_alive

\* The teardown thread that a handler starts for build b, as it is right
\* after the start.
NewThread(b, origin) ==
    [bid |-> b, pc |-> "start", agent |-> None, origin |-> origin]

\* C11: in debug mode an accepted update with status ERROR answers 202,
\* sets the status to ERROR, starts no teardown thread and leaves
\* agent_alive and the agent id as they are; outside debug mode the same
\* update starts a teardown thread.
C11_DebugErrorKeepsAgent ==
    [][AcceptedUpdate("ERROR")
          => LET b == resp'.bid
             IN /\ resp'.code = 202
                /\ builds'[b].status = "ERROR"
                /\ builds'[b].agent_alive = builds[b].agent_alive
                /\ builds'[b].agent = builds[b].agent
                /\ destroyT' = IF debug THEN destroyT
                               ELSE Append(destroyT, NewThread(b, "update"))]_vars

\* In debug mode an ERROR update was accepted for a build whose agent is
\* alive: no teardown thread exists and the agent VM is still there.
C11_Witness ==
    /\ debug
    /\ resp.op = "update" /\ resp.code = 202 /\ resp.status = "ERROR"
    /\ builds[resp.bid].status = "ERROR"
    /\ builds[resp.bid].agent_alive
    /\ builds[resp.bid].agent \in vms
    /\ ThreadsOf(resp.bid) = {}

\* C12: delete of an owned, non-deleted build sets its soft-delete flag and
\* nothing else of the row, starts a teardown thread if and only if
\* agent_alive is true, and answers 200 in the same step: the thread has
\* not run and no provisioner call has been made.
C12_DeleteFrame ==
    [][Handles("delete") /\ owned_lookup(resp'.user, resp'.bid)
          => LET b == resp'.bid
             IN /\ resp'.code = 200
                /\ builds' = [builds EXCEPT ![b].deleted = TRUE]
                /\ destroyT' = IF builds[b].agent_alive
                               THEN Append(destroyT, NewThread(b, "delete"))
                               ELSE destroyT
                /\ vms' = vms]_vars

\* delete has answered 200 while the teardown thread it started has not
\* run and the agent VM still exists.
C12_Witness ==
    /\ resp.op = "delete" /\ resp.code = 200
    /\ builds[resp.bid].deleted
    /\ builds[resp.bid].agent_alive
    /\ builds[resp.bid].agent \in vms
    /\ \E i \in ThreadsOf(resp.bid) :
          destroyT[i].origin = "delete" /\ destroyT[i].pc = "start"

\* C13: an accepted update that asks for the terminal status the build
\* already has is accepted again (202) and changes nothing of the Build
\* table but, when it carries details, the status detail of that build:
\* status, agent id, agent_alive and the soft-delete flag stay as they are.
C13_TerminalUpdateIdempotent ==
    [][\A st \in Terminal :
          AcceptedUpdate(st) /\ builds[resp'.bid].status = st
              => /\ resp'.code = 202
                 /\ \/ builds' = builds
                    \/ builds' = [builds EXCEPT
                                     ![resp'.bid].status_details = "d1"]]_vars

\* The same COMPLETED update was accepted twice for a build: two teardown
\* threads were started by update and the build is as after the first.
C13_Witness ==
    /\ resp.op = "update" /\ resp.code = 202 /\ resp.status = "COMPLETED"
    /\ builds[resp.bid].status = "COMPLETED"
    /\ builds[resp.bid].agent_alive
    /\ ~builds[resp.bid].deleted
    /\ Cardinality({i \in ThreadsOf(resp.bid) :
                       destroyT[i].origin = "update"}) = 2

\* C17: a view or delete of a build by a user who does not own it answers
\* 404 and changes nothing (no soft-delete, no teardown thread), and list
\* returns exactly the caller's own non-deleted builds.
C17_OwnerIsolation ==
    [][/\ (Handles("view") \/ Handles("delete"))
             /\ resp'.bid \in BuildIds
             /\ builds[resp'.bid].user # resp'.user
          => /\ resp'.code = 404
             /\ resp'.body = NoBody
             /\ builds' = builds
             /\ destroyT' = destroyT
       /\ Handles("list")
          => {r.id : r \in resp'.body.builds}
                = {b \in BuildIds :
                      builds[b].user = resp'.user /\ ~builds[b].deleted}]_vars

\* A user asked to delete another user's build, which is not deleted and
\* whose agent is alive, and got 404.
C17_Witness ==
    /\ resp.op = "delete" /\ resp.code = 404
    /\ resp.bid \in BuildIds
    /\ builds[resp.bid].user # resp.user
    /\ ~builds[resp.bid].deleted
    /\ builds[resp.bid].agent_alive

\* C18: once a build is soft-deleted, an update that names it changes no
\* build and starts no teardown thread, and with the build's own token it
\* answers 404.
C18_DeletedRejectsUpdate ==
    [][Handles("update") /\ resp'.bid \in BuildIds
             /\ builds[resp'.bid].deleted
          => /\ resp'.token = builds[resp'.bid].token => resp'.code = 404
             /\ builds' = builds
             /\ destroyT' = destroyT]_vars

\* An update with the build's own token was answered 404 because the
\* build is soft-deleted; its agent is still alive.
C18_Witness ==
    /\ resp.op = "update" /\ resp.code = 404
    /\ resp.bid \in BuildIds
    /\ resp.token = builds[resp.bid].token
    /\ builds[resp.bid].deleted
    /\ builds[resp.bid].agent_alive

\* C19: an update that finds its build but has no body, or a missing,
\* empty or out-of-enumeration status, answers 400, changes no build and
\* starts no teardown thread; and update starts a teardown thread only
\* when it applies COMPLETED, or ERROR outside debug mode.
C19_InvalidStatusRejected ==
    [][Handles("update") =>
          /\ update_lookup(resp'.bid, resp'.token)
                /\ resp'.status \notin Statuses
             => /\ resp'.code = 400
                /\ builds' = builds
                /\ destroyT' = destroyT
          /\ destroyT' # destroyT
             => /\ resp'.code = 202
                /\ builds'[resp'.bid].status = resp'.status
                /\ \/ resp'.status = "COMPLETED"
                   \/ resp'.status = "ERROR" /\ ~debug
                /\ destroyT' = Append(destroyT, NewThread(resp'.bid, "update"))]_vars

\* An update with the build's token and a status outside the enumeration
\* was answered 400; the build's agent is alive.
C19_Witness ==
    /\ resp.op = "update" /\ resp.code = 400 /\ resp.status = "BOGUS"
    /\ resp.bid \in BuildIds
    /\ resp.token = builds[resp.bid].token
    /\ builds[resp.bid].agent_alive

\* The provisioner's create-VM is called at most once for a build, and an
\* agent id stored on a build is never replaced: the provisioning thread
\* never returns to the point before its call, the VM id it got stays the
\* same, and the agent column changes only from null.
OneAgentPerBuild ==
    [][\A b \in BuildIds :
          /\ createT[b].pc \notin {"start", "fetched"}
                => createT'[b].pc \notin {"start", "fetched"}
          /\ createT[b].agent # None => createT'[b].agent = createT[b].agent
          /\ builds[b].agent # None => builds'[b].agent = builds[b].agent
          /\ builds'[b].agent # None => builds'[b].agent = createT'[b].agent]_vars

\* C16 as stated: in every state agent_alive implies that the agent id of
\* the build is non-null and that the VM with that id exists at the
\* provisioner; and a build has at most one agent VM over its life.
C16_AliveImpliesVmExists ==
    /\ [](\A b \in BuildIds :
            builds[b].agent_alive
                => builds[b].agent # None /\ builds[b].agent \in vms)
    /\ OneAgentPerBuild

\* A teardown thread of build b has had the provisioner delete the VM and
\* has not yet committed the clearing of agent_alive.
TeardownCommitting(b) ==
    \E i \in ThreadsOf(b) :
        destroyT[i].pc = "deleted" /\ destroyT[i].agent = builds[b].agent

\* C16 amended: agent_alive implies that the agent id is non-null and that
\* the VM with that id exists at the provisioner or has just been deleted
\* by a teardown thread that has not yet committed agent_alive = false;
\* and a build has at most one agent VM over its life.
C16_AliveImpliesVmExistsOrCommitting ==
    /\ [](\A b \in BuildIds :
            builds[b].agent_alive
                => /\ builds[b].agent # None
                   /\ builds[b].agent \in vms \/ TeardownCommitting(b))
    /\ OneAgentPerBuild

\* The agent of a build is alive and its VM exists while a teardown thread
\* that read the build before the agent id was stored has ended.
C16_Witness ==
    \E b \in BuildIds : \E i \in ThreadsOf(b) :
        /\ builds[b].agent_alive
        /\ builds[b].agent \in vms
        /\ destroyT[i].pc = "done"
        /\ destroyT[i].agent = None

\* Teardown thread i has run and found no row with its build id.
FoundNoRow(i) == destroyT[i].bid \notin BuildIds /\ destroyT[i].pc # "start"

\* C20: a teardown thread that finds no row with its build id logs and
\* ends normally: it has returned (no error was raised), it has made no
\* provisioner call and nothing of the record store or of the
\* provisioner's VMs has been touched on its behalf.
C20_MissingRowEndsNormally ==
    \A i \in Threads :
        FoundNoRow(i)
            => /\ destroyT[i].pc \in {"done", "failed"}
               /\ destroyT[i].agent = None

\* C14: in every reachable state at most one User row exists per
\* identity (uuid), also when two requests of the same unknown identity
\* are inside the gate at once.
C14_UuidUnique ==
    \A i, j \in 1..Len(users) :
        users[i].uuid = users[j].uuid => i = j

\* This step lets request r out of the gate and into its handler.
Passes(r) == logins' = Remove(logins, r) /\ nreq' = nreq + 1

\* This step is a request that login_required turns away.
Rejected == logins' = logins /\ nreq' = nreq + 1

\* The rows of the User table this step inserts or changes.
RowsWritten ==
    {id \in 1..Len(users') : id > Len(users) \/ users'[id] # users[id]}

\* C15: a pass through the gate writes at most one User row: it inserts
\* one when its lookup found none, updates the token of the row it found
\* in place when the token it loaded differs from the one presented, and
\* writes nothing when they are equal, and the handler then runs for that
\* user; a request the gate turns away (no header, unauthorized, any other
\* verifier failure) is answered 401 or 500, creates and changes no User
\* row, and its handler is not run.
C15_OneWritePerLogin ==
    [][/\ \A r \in Logins :
             Passes(r)
                 => LET l == logins[r]
                    IN /\ l.user = None
                          => users' = Append(users, [uuid |-> l.uuid,
                                                    token |-> l.token])
                       /\ l.user # None /\ l.stored # l.token
                          => users' = [users EXCEPT ![l.user].token = l.token]
                       /\ l.user # None /\ l.stored = l.token
                          => users' = users
                       /\ resp'.op \in WrappedOps
                       /\ resp'.user = login_user(r)
                       /\ resp'.code \notin {401, 500}
       /\ Rejected
             => /\ resp'.code \in {401, 500}
                /\ resp'.user = None
                /\ users' = users
                /\ builds' = builds
                /\ createT' = createT
                /\ destroyT' = destroyT
                /\ vms' = vms
       /\ Len(users') >= Len(users)
       /\ Cardinality(RowsWritten) <= 1]_vars

\* A request is inside the gate with the User row it loaded, and the token
\* of that row has since been updated in place by another request.
C15_Witness ==
    \E r \in Logins :
        /\ Len(users) = 1
        /\ logins[r].user = 1
        /\ logins[r].stored = "t1"
        /\ users[1].token = "t2"

\* C21: when the provisioning thread re-fetches a build that has been
\* soft-deleted since create committed it, the thread raises no error,
\* creates no agent VM and writes nothing to the Build table.
C21_DeletedBeforeFetchEndsNormally ==
    [][\A b \in BuildIds :
          /\ createT[b].pc = "start" /\ createT'[b].pc # "start"
          /\ builds[b].deleted
          => /\ createT'[b].pc # "crashed"
             /\ createT'[b].agent = None
             /\ vms' = vms
             /\ builds' = builds]_vars

\* C22: the provisioner's delete is only called with a non-null agent VM
\* id: every teardown thread that has re-fetched its build holds a stored
\* agent id, and so does every one that has made its provisioner call.
C22_DeleteOnlyStoredAgent ==
    \A i \in Threads :
        /\ destroyT[i].bid \in BuildIds /\ destroyT[i].pc = "fetched"
              => destroyT[i].agent # None
        /\ destroyT[i].pc \in Called => destroyT[i].agent # None

====
